---- MODULE Spec2Model ----
(***************************************************************************)
(* Dominant-colour extraction of src/app.py: the palette extractor         *)
(* (get_dominant_colors, rgb_to_hex), the cost-curve builder               *)
(* (calculate_wcss), the elbow selector (find_optimal_k_elbow) and the     *)
(* Streamlit script that chains them (lines 319-404).                      *)
(*                                                                         *)
(* A pixel is a triple <<r, g, b>> of integers 0..255.  A cluster centre   *)
(* is a float vector in the code; here it is the exact rational vector     *)
(* s / n, kept as [s |-> <<sr, sg, sb>>, n |-> count], so that the         *)
(* conversions of the code (dtype=int, int(), :02x) have something to      *)
(* truncate; the rounding error of float32 arithmetic is left out.  Labels *)
(* are centre indices; numpy counts them from 0, the model from 1.  An     *)
(* image is its pixel matrix after image.convert("RGB") (lines 21-22).     *)
(***************************************************************************)
EXTENDS Integers, Sequences, FiniteSets

VARIABLES
    pc,           \* position of the caller
    caller,       \* "app": the Streamlit script; "direct": a direct call of one function
    image,        \* the image, as its flattened RGB pixel matrix (lines 24-25, 341-342)
    num_colors,   \* argument num_colors of get_dominant_colors
    colors,       \* kmeans.cluster_centers_ (line 31)
    labels,       \* kmeans.predict(pixels) (line 32)
    picked,       \* the indices i of line 34, in output order
    dominant,     \* the array get_dominant_colors returns (line 36)
    hex_codes,    \* rgb_to_hex of every returned entry (lines 389-390)
    max_k,        \* argument max_k of calculate_wcss
    sample,       \* sampled_pixels of the current calculate_wcss call (line 64)
    wcss,         \* the list calculate_wcss returns (line 70)
    runs,         \* what each finished calculate_wcss call drew and returned
    k_range,      \* argument k_range of find_optimal_k_elbow (line 356)
    knee,         \* what KneeLocator did in find_optimal_k_elbow (line 84)
    optimal_k,    \* the value find_optimal_k_elbow returns
    warnings,     \* the st.warning messages shown so far
    error         \* the exception that reached the caller, or "none"

vars == <<pc, caller, image, num_colors, colors, labels, picked, dominant,
          hex_codes, max_k, sample, wcss, runs, k_range, knee, optimal_k,
          warnings, error>>

----------------------------------------------------------------------------
(* Bounds of the model.                                                    *)

\* longest image of the small inputs
MaxPixels == 4
\* largest cluster count a direct call asks for
MaxK == 3
\* stands for the sample limit 100000 of line 62, at the scale of the model
SampleCap == 10

(* Program constants.                                                      *)

\* max_k_to_test, line 355
MaxKToTest == 10
\* the default of lines 86 and 89
DefaultK == 5
\* the floor of line 86
MinK == 2

----------------------------------------------------------------------------
(* Inputs.                                                                 *)

Black == <<0, 0, 0>>
Colours == {Black, <<254, 0, 16>>, <<255, 128, 16>>}

RECURSIVE SeqsUpTo(_, _)
SeqsUpTo(S, n) ==
    IF n = 0 THEN {<<>>}
    ELSE LET shorter == SeqsUpTo(S, n - 1)
         IN  shorter \cup {Append(q, x) : q \in {r \in shorter : Len(r) = n - 1}, x \in S}

\* every image of at most MaxPixels pixels over Colours, the empty one included
SmallImages == SeqsUpTo(Colours, MaxPixels)

\* an image of n pixels: j pixels of one colour, then n - j black ones
Dim == <<0, 0, 16>>
BigImage(n, j) == [i \in 1..n |-> IF i <= j THEN Dim ELSE Black]
BigImages == {BigImage(n, j) : n \in {SampleCap, SampleCap + 1}, j \in 0..2}

----------------------------------------------------------------------------
(* sklearn.cluster.KMeans(n_clusters=k, random_state=42, n_init=10), the   *)
(* library behind lines 28-32 and 67-69.  fit raises ValueError when k < 1 *)
(* or when there are fewer points than clusters.  Otherwise it ends in a   *)
(* fixed point of Lloyd's iteration: every centre is the mean of the       *)
(* points nearest to it, and a centre no point is nearest to lies on one   *)
(* of the points.  Which fixed point, and in which centre order, is the    *)
(* library's business: every one of them is a possible outcome.            *)

Sq(x) == x * x

\* squared distance of pixel p to centre c, times c.n^2
Dist2(p, c) ==
    Sq(p[1] * c.n - c.s[1]) + Sq(p[2] * c.n - c.s[2]) + Sq(p[3] * c.n - c.s[3])

\* p is strictly nearer to centre c than to centre d
Nearer(p, c, d) == Dist2(p, c) * Sq(d.n) < Dist2(p, d) * Sq(c.n)

\* argmin over the first j centres: the nearest one, the lowest index among
\* equally near ones
RECURSIVE NearestOf(_, _, _)
NearestOf(cs, p, j) ==
    IF j = 1 THEN 1
    ELSE LET best == NearestOf(cs, p, j - 1)
         IN  IF Nearer(p, cs[j], cs[best]) THEN j ELSE best

\* kmeans.predict on one pixel
Predict(cs, p) == NearestOf(cs, p, Len(cs))

FitRaises(points, k) == k < 1 \/ Len(points) < k

DistinctPoints(points) == {points[i] : i \in 1..Len(points)}

\* the sum of channel ch over the first i points that assignment a puts in cluster j
RECURSIVE ChannelSum(_, _, _, _, _)
ChannelSum(points, a, j, ch, i) ==
    IF i = 0 THEN 0
    ELSE ChannelSum(points, a, j, ch, i - 1)
         + (IF a[points[i]] = j THEN points[i][ch] ELSE 0)

Members(points, a, j) == {i \in 1..Len(points) : a[points[i]] = j}

MeanOf(points, a, j) ==
    [s |-> <<ChannelSum(points, a, j, 1, Len(points)),
             ChannelSum(points, a, j, 2, Len(points)),
             ChannelSum(points, a, j, 3, Len(points))>>,
     n |-> Cardinality(Members(points, a, j))]

\* the centres of an assignment: the mean of every cluster that has points,
\* and point e[j] for every cluster j that has none
CentresOf(means, e) ==
    [j \in DOMAIN means |-> IF j \in DOMAIN e THEN [s |-> e[j], n |-> 1] ELSE means[j]]

IsFixedPoint(points, a, cs) ==
    \A p \in DistinctPoints(points) : Predict(cs, p) = a[p]

\* a centre j without points can lie on point p only if the centre of p's own
\* cluster lies on p too and comes before j: predict would move p otherwise.
\* IsFixedPoint implies it; it is tested first because it is cheap.
MayLieOn(means, a, p, j) == a[p] < j /\ Dist2(p, means[a[p]]) = 0

FitOutcomes(points, k) ==
    UNION { LET means == [j \in 1..k |-> MeanOf(points, a, j)]
                empty == {j \in 1..k : means[j].n = 0}
                sites == {e \in [empty -> DistinctPoints(points)] :
                            \A j \in empty : MayLieOn(means, a, e[j], j)}
            IN  { cs \in { CentresOf(means, e) : e \in sites } :
                    IsFixedPoint(points, a, cs) } :
            a \in [DistinctPoints(points) -> 1..k] }

----------------------------------------------------------------------------
(* get_dominant_colors, lines 31-36.                                       *)

\* a variant of CounterKeys that lists the labels in ascending order, as
\* np.unique(labels) would
RECURSIVE CounterKeysAscending(_)
CounterKeysAscending(ls) ==
    IF ls = <<>> THEN <<>>
    ELSE LET low == CHOOSE l \in {ls[i] : i \in 1..Len(ls)} :
                      \A i \in 1..Len(ls) : l <= ls[i]
         IN  <<low>> \o CounterKeysAscending(SelectSeq(ls, LAMBDA x : x # low))

\* Counter(labels): the keys in insertion order, i.e. by first occurrence
RECURSIVE CounterKeys(_)
CounterKeys(ls) ==
    IF ls = <<>> THEN <<>>
    ELSE LET front == CounterKeys(SubSeq(ls, 1, Len(ls) - 1))
             last  == ls[Len(ls)]
         IN  IF \E i \in 1..Len(front) : front[i] = last THEN front
             ELSE Append(front, last)

\* Counter(labels)[l]
CountOf(ls, l) == Cardinality({i \in 1..Len(ls) : ls[i] = l})

RemoveAt(q, i) == SubSeq(q, 1, i - 1) \o SubSeq(q, i + 1, Len(q))

\* sorted(items, key=count, reverse=True): stable, so equal counts keep the
\* order of keys
RECURSIVE SortedByCount(_, _)
SortedByCount(keys, ls) ==
    IF keys = <<>> THEN <<>>
    ELSE LET i == CHOOSE x \in 1..Len(keys) :
                    /\ \A y \in 1..Len(keys) : CountOf(ls, keys[y]) <= CountOf(ls, keys[x])
                    /\ \A y \in 1..(x - 1) : CountOf(ls, keys[y]) < CountOf(ls, keys[x])
         IN  <<keys[i]>> \o SortedByCount(RemoveAt(keys, i), ls)

\* a variant of MostCommon that leaves the sort out: Counter order as it is
MostCommonUnsorted(ls) == CounterKeys(ls)

\* [i for i, _ in Counter(labels).most_common()], line 34
MostCommon(ls) == SortedByCount(CounterKeys(ls), ls)

\* one float channel s/n under dtype=int: the fraction is cut off (line 36)
ToInt(s, n) == s \div n

AsIntArray(c) == <<ToInt(c.s[1], c.n), ToInt(c.s[2], c.n), ToInt(c.s[3], c.n)>>

----------------------------------------------------------------------------
(* rgb_to_hex, line 48.                                                    *)

HexDigits == <<"0", "1", "2", "3", "4", "5", "6", "7",
               "8", "9", "a", "b", "c", "d", "e", "f">>

\* format(v, "x") of an integer v >= 0
RECURSIVE HexOf(_)
HexOf(v) ==
    IF v < 16 THEN <<HexDigits[v + 1]>>
    ELSE Append(HexOf(v \div 16), HexDigits[(v % 16) + 1])

\* format(v, "02x"): padded with zeros to two digits, never cut
Hex02(v) == IF Len(HexOf(v)) < 2 THEN <<"0">> \o HexOf(v) ELSE HexOf(v)

\* the string, as the sequence of its characters
rgb_to_hex(rgb) == <<"#">> \o Hex02(rgb[1]) \o Hex02(rgb[2]) \o Hex02(rgb[3])

----------------------------------------------------------------------------
(* calculate_wcss, lines 61-70.                                            *)

Min(a, b) == IF a < b THEN a ELSE b
Max(a, b) == IF a > b THEN a ELSE b

\* num_samples, line 62
NumSamples(pixels) == Min(Len(pixels), SampleCap)

\* np.random.choice(len(pixels), num_samples, replace=False), line 63: the
\* global generator is never seeded, so any num_samples distinct indices may
\* come out.  The order of the draw is left out: the sample is kept in index
\* order, and the inertia below does not depend on the order of its points.
SampleChoices(pixels) ==
    {idx \in SUBSET (1..Len(pixels)) : Cardinality(idx) = NumSamples(pixels)}

\* pixels[sample_indices], line 64
RECURSIVE TakeFrom(_, _, _)
TakeFrom(pixels, idx, i) ==
    IF i = 0 THEN <<>>
    ELSE IF i \in idx THEN Append(TakeFrom(pixels, idx, i - 1), pixels[i])
         ELSE TakeFrom(pixels, idx, i - 1)

SampledPixels(pixels, idx) == TakeFrom(pixels, idx, Len(pixels))

RECURSIVE Gcd(_, _)
Gcd(a, b) == IF b = 0 THEN a ELSE Gcd(b, a % b)

\* the least common multiple of 1..n: a common denominator of every cluster mean
RECURSIVE Denominator(_)
Denominator(n) ==
    IF n <= 1 THEN 1
    ELSE LET d == Denominator(n - 1) IN (d \div Gcd(d, n)) * n

RECURSIVE SquareSum(_, _)
SquareSum(points, i) ==
    IF i = 0 THEN 0
    ELSE SquareSum(points, i - 1)
         + Sq(points[i][1]) + Sq(points[i][2]) + Sq(points[i][3])

\* den times |mean of cluster j|^2 times its size; 0 for an empty cluster
MeanTerm(points, a, j, den) ==
    LET m == MeanOf(points, a, j)
    IN  IF m.n = 0 THEN 0
        ELSE (den \div m.n) * (Sq(m.s[1]) + Sq(m.s[2]) + Sq(m.s[3]))

RECURSIVE MeanTerms(_, _, _, _)
MeanTerms(points, a, j, den) ==
    IF j = 0 THEN 0
    ELSE MeanTerms(points, a, j - 1, den) + MeanTerm(points, a, j, den)

\* kmeans.inertia_ after fit, line 69: the sum of squared distances of the
\* points to the means of their clusters.  With random_state=42 it is a
\* function of the points and k; n_init=10 keeps the lowest inertia found,
\* taken here to be the lowest there is.  An exact fraction num/den.
Inertia(points, k) ==
    LET den   == Denominator(Len(points))
        total == den * SquareSum(points, Len(points))
        costs == {total - MeanTerms(points, a, k, den) :
                    a \in [DistinctPoints(points) -> 1..k]}
    IN  [num |-> CHOOSE c \in costs : \A d \in costs : c <= d,
         den |-> den]

\* the loop of lines 66-69 reaches a fit that raises
WcssRaises(points, k) == \E i \in 1..k : FitRaises(points, i)

\* the list of line 70
WcssValues(points, k) == [i \in 1..k |-> Inertia(points, i)]

----------------------------------------------------------------------------
(* find_optimal_k_elbow, lines 83-89.                                      *)

\* KneeLocator(k_range, wcss_values, ...) of the kneed library, line 84: it
\* raises, or its elbow is None, or its elbow is one of the x values.
\* NotCalled is the value of knee before the call.
NotCalled == [kind |-> "not called", elbow |-> 0]
NoKnee == [kind |-> "none", elbow |-> 0]
KneeRaised == [kind |-> "raise", elbow |-> 0]
KneeOutcomes(ks) ==
    {NoKnee, KneeRaised} \cup {[kind |-> "knee", elbow |-> ks[i]] : i \in 1..Len(ks)}

\* a variant of ElbowResult without the floor of line 86
ElbowResultNoFloor(o) == IF o.kind = "knee" THEN o.elbow ELSE DefaultK

\* a variant of ElbowResult whose fallback is the floor instead of the default
ElbowResultFloorFallback(o) == IF o.kind = "knee" THEN Max(MinK, o.elbow) ELSE MinK

\* the value returned: line 86 when KneeLocator returned, line 89 when it raised
ElbowResult(o) ==
    IF o.kind = "raise" THEN DefaultK
    ELSE IF o.kind = "knee" THEN Max(MinK, o.elbow) ELSE DefaultK

\* the st.warning calls of the invocation: line 88, in the except branch only
ElbowWarnings(o) ==
    IF o.kind = "raise" THEN <<"Gagal mendeteksi titik elbow, menggunakan k=5 sebagai default.">>
    ELSE <<>>

----------------------------------------------------------------------------
(* The state before any call.                                              *)

Blank ==
    /\ colors = <<>>
    /\ labels = <<>>
    /\ picked = <<>>
    /\ dominant = <<>>
    /\ hex_codes = <<>>
    /\ sample = <<>>
    /\ runs = <<>>
    /\ knee = NotCalled
    /\ optimal_k = 0
    /\ warnings = <<>>
    /\ error = "none"

\* range(1, n + 1) as a list, line 356
RangeList(n) == [i \in 1..n |-> i]

----------------------------------------------------------------------------
(* Operations.                                                             *)

\* calculate_wcss(pixels, max_k): the Streamlit script calls it once (line 357);
\* a direct caller calls it twice in a row on the same arguments
CalculateWcss ==
    /\ pc = "wcss"
    /\ \E idx \in SampleChoices(image) : sample' = SampledPixels(image, idx)
    /\ IF WcssRaises(sample', max_k)
       THEN /\ error' = "ValueError"
            /\ pc' = "raised"
            /\ UNCHANGED <<wcss, runs, k_range>>
       ELSE /\ wcss' = WcssValues(sample', max_k)
            /\ runs' = Append(runs, [sample |-> sample', wcss |-> wcss'])
            /\ k_range' = IF caller = "app" THEN RangeList(max_k) ELSE k_range
            /\ pc' = IF caller = "app" THEN "elbow"
                     ELSE IF Len(runs) = 0 THEN "wcss" ELSE "done"
            /\ UNCHANGED error
    /\ UNCHANGED <<caller, image, num_colors, colors, labels, picked, dominant,
                   hex_codes, max_k, knee, optimal_k, warnings>>

\* find_optimal_k_elbow(wcss_values, k_range), lines 83-89
FindOptimalKElbow ==
    /\ pc = "elbow"
    /\ \E o \in KneeOutcomes(k_range) :
         /\ knee' = o
         /\ optimal_k' = ElbowResult(o)
         /\ warnings' = warnings \o ElbowWarnings(o)
    /\ pc' = IF caller = "app" THEN "plot" ELSE "done"
    /\ UNCHANGED <<caller, image, num_colors, colors, labels, picked, dominant,
                   hex_codes, max_k, sample, wcss, runs, k_range, error>>

\* lines 361-386 of the script: the curve is plotted, the chosen k reported,
\* and get_dominant_colors is called with num_colors=optimal_k
PlotAndReport ==
    /\ pc = "plot"
    /\ num_colors' = optimal_k
    /\ pc' = "palette"
    /\ UNCHANGED <<caller, image, colors, labels, picked, dominant, hex_codes,
                   max_k, sample, wcss, runs, k_range, knee, optimal_k, warnings,
                   error>>

\* get_dominant_colors(image, num_colors), lines 21-36
GetDominantColors ==
    /\ pc = "palette"
    /\ IF FitRaises(image, num_colors)
       THEN /\ error' = "ValueError"
            /\ pc' = "raised"
            /\ UNCHANGED <<colors, labels, picked, dominant>>
       ELSE /\ colors' \in FitOutcomes(image, num_colors)
            /\ labels' = [i \in 1..Len(image) |-> Predict(colors', image[i])]
            /\ picked' = MostCommon(labels')
            /\ dominant' = [i \in 1..Len(picked') |-> AsIntArray(colors'[picked'[i]])]
            /\ pc' = "hex"
            /\ UNCHANGED error
    /\ UNCHANGED <<caller, image, num_colors, hex_codes, max_k, sample, wcss,
                   runs, k_range, knee, optimal_k, warnings>>

\* rgb_to_hex of every returned entry, the loop of lines 389-390
RgbToHex ==
    /\ pc = "hex"
    /\ hex_codes' = [i \in 1..Len(dominant) |-> rgb_to_hex(dominant[i])]
    /\ pc' = "done"
    /\ UNCHANGED <<caller, image, num_colors, colors, labels, picked, dominant,
                   max_k, sample, wcss, runs, k_range, knee, optimal_k, warnings,
                   error>>

----------------------------------------------------------------------------
(* The Streamlit script, lines 319-404: an image is uploaded, then the     *)
(* curve, the elbow, the palette and the hex codes follow in this order.   *)

AppImages == BigImages \cup {img \in SmallImages : Len(img) \in 1..2}

Init ==
    /\ Blank
    /\ caller = "app"
    /\ pc = "wcss"
    /\ image \in AppImages
    /\ max_k = MaxKToTest
    /\ num_colors = 0
    /\ k_range = <<>>
    /\ wcss = <<>>

Next == CalculateWcss \/ FindOptimalKElbow \/ PlotAndReport \/ GetDominantColors \/ RgbToHex

Spec == Init /\ [][Next]_vars

(* Direct calls of get_dominant_colors, and of rgb_to_hex on what it returns. *)

InitPalette ==
    /\ Blank
    /\ caller = "direct"
    /\ pc = "palette"
    /\ image \in SmallImages
    /\ num_colors \in 0..MaxK
    /\ max_k = 0
    /\ k_range = <<>>
    /\ wcss = <<>>

NextPalette == GetDominantColors \/ RgbToHex

SpecPalette == InitPalette /\ [][NextPalette]_vars

(* Direct calls of calculate_wcss, two in a row on the same arguments.     *)

InitCurve ==
    /\ Blank
    /\ caller = "direct"
    /\ pc = "wcss"
    /\ image \in SmallImages \cup BigImages
    /\ max_k \in (-1)..MaxK
    /\ num_colors = 0
    /\ k_range = <<>>
    /\ wcss = <<>>

NextCurve == CalculateWcss

SpecCurve == InitCurve /\ [][NextCurve]_vars

(* Direct calls of find_optimal_k_elbow on the cost curve of an image.     *)

InitElbow ==
    /\ Blank
    /\ caller = "direct"
    /\ pc = "elbow"
    /\ image \in {img \in SmallImages \cup BigImages : Len(img) >= 1}
    /\ max_k \in 0..Min(Len(image), MaxKToTest)
    /\ wcss = WcssValues(image, max_k)
    /\ k_range = RangeList(max_k)
    /\ num_colors = 0

NextElbow == FindOptimalKElbow

SpecElbow == InitElbow /\ [][NextElbow]_vars

----------------------------------------------------------------------------
(* Properties.                                                             *)

\* the number of pixels of the image that predict assigns to centre j
Population(j) ==
    Cardinality({i \in 1..Len(image) : Predict(colors, image[i]) = j})

\* the first pixel of the flattened image that predict assigns to centre j
FirstPixelOf(j) ==
    CHOOSE i \in 1..Len(image) :
        /\ Predict(colors, image[i]) = j
        /\ \A x \in 1..(i - 1) : Predict(colors, image[x]) # j

Returned == pc \in {"hex", "done"}

\* C1: for every image of at least one pixel and every k >= 1,
\* get_dominant_colors returns without raising and returns exactly k entries.
C1_ExactlyKEntries ==
    (Len(image) >= 1 /\ num_colors >= 1 /\ pc # "palette")
        => (error = "none" /\ Len(dominant) = num_colors)

\* C2: the entries get_dominant_colors returns are the centres in order of
\* population, non-increasing: no entry's centre has fewer pixels than the
\* centre of the entry after it.
C2_PopulationNonIncreasing ==
    Returned =>
        /\ Len(dominant) = Len(picked)
        /\ \A i \in 1..Len(picked) : dominant[i] = AsIntArray(colors[picked[i]])
        /\ \A i \in 1..(Len(picked) - 1) :
               Population(picked[i]) >= Population(picked[i + 1])

\* C2, witness: a palette whose populations differ and whose order is not the
\* order in which the labels first occur, so the sort moved an entry.
C2_SortMovedAnEntry ==
    /\ Returned
    /\ Len(picked) >= 2
    /\ Population(picked[1]) > Population(picked[2])
    /\ picked # CounterKeys(labels)

\* C9, as claimed: entries of equal population come out in ascending centre
\* index.
C9_TiesInCentreOrder ==
    Returned =>
        \A i, j \in 1..Len(picked) :
            (i < j /\ Population(picked[i]) = Population(picked[j]))
                => picked[i] < picked[j]

\* C9, as amended: entries of equal population come out in the order in which
\* their clusters first occur among the pixels of the flattened image.
C9_TiesInPixelOrder ==
    Returned =>
        \A i, j \in 1..Len(picked) :
            (i < j /\ Population(picked[i]) = Population(picked[j]))
                => FirstPixelOf(picked[i]) < FirstPixelOf(picked[j])

\* C9, witness: two entries of equal population, the later centre first.
C9_TieAgainstCentreOrder ==
    /\ Returned
    /\ \E i, j \in 1..Len(picked) :
           /\ i < j
           /\ Population(picked[i]) = Population(picked[j])
           /\ picked[i] > picked[j]

Abs(x) == IF x < 0 THEN -x ELSE x

\* v is an integer of 0..255 nearest to the fraction s/n
IsNearest(v, s, n) == v \in 0..255 /\ 2 * Abs(v * n - s) <= n

DigitValue(d) == CHOOSE v \in 0..15 : HexDigits[v + 1] = d

\* code is "#" and two lowercase hexadecimal digits for each of r, g, b
IsHexCodeOf(code, rgb) ==
    /\ Len(code) = 7
    /\ code[1] = "#"
    /\ \A i \in 2..7 : \E v \in 0..15 : HexDigits[v + 1] = code[i]
    /\ \A ch \in 1..3 :
           16 * DigitValue(code[2 * ch]) + DigitValue(code[2 * ch + 1]) = rgb[ch]

\* C7: every channel of a centre that is not an integer is exported as the
\* integer nearest to it, and the hex code of an entry is "#" and two
\* lowercase hexadecimal digits per channel of the exported integers.
C7_NearestInteger ==
    pc = "done" =>
        \A i \in 1..Len(dominant) :
            /\ \A ch \in 1..3 :
                   LET c == colors[picked[i]]
                   IN  c.s[ch] % c.n # 0 => IsNearest(dominant[i][ch], c.s[ch], c.n)
            /\ IsHexCodeOf(hex_codes[i], dominant[i])

\* C5: for every non-empty pixel set and every max_k >= 2, calculate_wcss
\* returns exactly max_k values, the i-th one the inertia for k = i.
C5_ExactlyMaxKCosts ==
    (Len(image) >= 1 /\ max_k >= 2 /\ pc # "wcss")
        => /\ error = "none"
           /\ Len(wcss) = max_k
           /\ \A i \in 1..Len(wcss) : wcss[i] = Inertia(sample, i)

\* C6: two calls of calculate_wcss on the same pixels and the same max_k >= 1
\* draw the same sample and return the same curve.
C6_SameResultEveryCall ==
    (Len(runs) = 2 /\ max_k >= 1) =>
        /\ runs[1].sample = runs[2].sample
        /\ runs[1].wcss = runs[2].wcss

\* C10: called with an empty pixel set or with max_k < 1, calculate_wcss
\* fails and returns no curve.
C10_InvalidInputFails ==
    (Len(image) = 0 \/ max_k < 1)
        => /\ runs = <<>>
           /\ pc # "wcss" => error # "none"

\* C3: find_optimal_k_elbow never returns a value below 2, whatever KneeLocator
\* does; a knee at k = 1 is returned as 2.
C3_AtLeastTwo ==
    knee # NotCalled =>
        /\ optimal_k >= 2
        /\ (knee.kind = "knee" /\ knee.elbow = 1) => optimal_k = 2

\* C3, witness: a knee detected at k = 1, returned as 2.
C3_KneeAtOne ==
    knee.kind = "knee" /\ knee.elbow = 1 /\ optimal_k = 2

\* C4: when KneeLocator raises or finds no knee, find_optimal_k_elbow returns
\* 5, no exception reaches the script, and the script goes on to
\* get_dominant_colors with num_colors = 5.
C4_FallbackIsFive ==
    knee.kind \in {"none", "raise"} =>
        /\ optimal_k = 5
        /\ error = "none"
        /\ \/ pc = "plot" /\ ENABLED PlotAndReport
           \/ pc \in {"palette", "hex", "done"} /\ num_colors = 5

\* C4, witness: KneeLocator raised and the palette of 5 colours was extracted.
C4_PaletteAfterException ==
    /\ knee.kind = "raise"
    /\ pc = "done"
    /\ num_colors = 5
    /\ Len(hex_codes) >= 1

\* C8: every time find_optimal_k_elbow falls back to the default because no
\* knee was detected (KneeLocator raised, or its elbow is None), a warning is
\* shown during that call.
C8_FallbackWarns ==
    knee.kind \in {"none", "raise"} =>
        /\ optimal_k = DefaultK
        /\ Len(warnings) >= 1

====
